---------------------------- MODULE Spec2Model ----------------------------
(***************************************************************************)
(* A model of the rmm frame allocator core:                                *)
(*   - BumpAllocator (src/allocator/frame/bump.rs): new, allocate, free,   *)
(*     usage over a list of MemoryArea plus a skip offset;                 *)
(*   - AArch64Arch (src/arch/aarch64.rs): TLB invalidation, root tables,   *)
(*     instruction-cache synchronisation and the page-table constants.     *)
(* usize is modelled as an unsigned word of USIZE_BITS bits; arithmetic    *)
(* that the code performs on usize wraps modulo 2^USIZE_BITS in a build    *)
(* without overflow checks and panics in a build with them.                *)
(***************************************************************************)
EXTENDS Integers, Sequences, FiniteSets, TLC

VARIABLES
    overflow_checks, \* build profile: TRUE = arithmetic overflow panics
    areas_in,        \* the region list handed to BumpAllocator::new
    offset_in,       \* the skip offset handed to BumpAllocator::new
    orig_areas,      \* BumpAllocator.orig_areas : <<areas, offset>>
    cur_areas,       \* BumpAllocator.cur_areas  : <<areas, offset>>
    mem,             \* physical memory, one value per Grain-sized cell
    panicked,        \* a panic unwound out of the last call
    last,            \* the last call and what it returned
    hist,            \* the spans returned by successful allocate calls, in call order
    ncalls,          \* number of allocate calls made so far
    got_none,        \* some allocate call has returned None
    tlb_trace,       \* instructions executed so far by AArch64Arch operations
    arch_call,       \* the AArch64Arch call in progress and its position
    ttbr,            \* the root-table registers ttbr0_el1 and ttbr1_el1
    constants_test   \* outcome of tests::constants

bump_vars == <<overflow_checks, areas_in, offset_in, orig_areas, cur_areas, mem,
               panicked, last, hist, ncalls, got_none>>
arch_vars == <<tlb_trace, arch_call, ttbr, constants_test>>
vars == <<overflow_checks, areas_in, offset_in, orig_areas, cur_areas, mem,
          panicked, last, hist, ncalls, got_none, tlb_trace, arch_call, ttbr,
          constants_test>>

---------------------------------------------------------------------------
(* Bounds of the model. *)

USIZE_BITS == 20
MaxAreas == 2
MaxCalls == 3
MaxCount == 2

---------------------------------------------------------------------------
(* Machine words. *)

RECURSIVE Pow2(_)
Pow2(n) == IF n = 0 THEN 1 ELSE 2 * Pow2(n - 1)

USIZE_MOD == Pow2(USIZE_BITS)

\* usize arithmetic as a build without overflow checks computes it
WrapAdd(a, b) == (a + b) % USIZE_MOD
WrapSub(a, b) == (a - b + USIZE_MOD) % USIZE_MOD
WrapMul(a, b) == (a * b) % USIZE_MOD

PAGE_SHIFT == 12
PAGE_SIZE == Pow2(PAGE_SHIFT)
PHYS_OFFSET == USIZE_MOD - Pow2(USIZE_BITS - 1)

\* Memory is modelled in cells of half a page.
Grain == PAGE_SIZE \div 2

---------------------------------------------------------------------------
(* MemoryArea lists: ascending base order, not overlapping. *)

MemoryArea(base, size) == [base |-> base, size |-> size]

AreaSizes == {Grain, 2 * Grain, 4 * Grain}
AreaGaps == {0, Grain}
FirstBases == {PAGE_SIZE, PAGE_SIZE + Grain}

RECURSIVE SumSizes(_)
SumSizes(areas) ==
    IF areas = <<>> THEN 0 ELSE Head(areas).size + SumSizes(Tail(areas))

AreaEnd(a) == a.base + a.size

\* the bases a region appended to `areas` may start at
NextBases(areas) ==
    IF areas = <<>> THEN FirstBases
    ELSE {AreaEnd(areas[Len(areas)]) + g : g \in AreaGaps}

RECURSIVE AreaLists(_)
AreaLists(n) ==
    IF n = 0 THEN {<<>>}
    ELSE UNION {{Append(l, MemoryArea(b, s)) : b \in NextBases(l), s \in AreaSizes} :
                    l \in AreaLists(n - 1)}

\* a region of three frames at 0x1000 and one of one frame at 0x10000
ScenarioAreas ==
    << MemoryArea(PAGE_SIZE, 3 * PAGE_SIZE), MemoryArea(16 * PAGE_SIZE, PAGE_SIZE) >>

Regions == UNION {AreaLists(n) : n \in 0..MaxAreas} \cup {ScenarioAreas}

\* skip offsets: every cell boundary up to one cell past the end of the regions
Offsets(areas) == {k * Grain : k \in 0..(SumSizes(areas) \div Grain + 1)}

ListsTop == PAGE_SIZE + Grain + MaxAreas * 5 * Grain
MemTop ==
    IF ListsTop < AreaEnd(ScenarioAreas[2]) THEN AreaEnd(ScenarioAreas[2]) ELSE ListsTop
Cells == 0..(MemTop \div Grain)


---------------------------------------------------------------------------
(* Arch: physical-to-virtual mapping and raw memory writes. *)

\* Arch::phys_to_virt: the direct map, physical address plus PHYS_OFFSET
phys_to_virt(phys) == phys + PHYS_OFFSET

\* the physical byte a direct-mapped virtual address names
virt_to_phys(virt) == virt - PHYS_OFFSET

\* cell c has a byte in the physical range [phys, phys + len)
CellInSpan(c, phys, len) ==
    /\ len > 0
    /\ c * Grain < phys + len
    /\ phys < c * Grain + Grain

\* Arch::write_bytes(address, value, count) on memory m
write_bytes(m, address, value, count) ==
    [c \in DOMAIN m |->
        IF CellInSpan(c, virt_to_phys(address), count) THEN value ELSE m[c]]

---------------------------------------------------------------------------
(* BumpAllocator. *)

\* mutant: a region is dropped only when the offset passes its end
RECURSIVE NewSkipStrict(_, _)
NewSkipStrict(areas, offset) ==
    IF areas # <<>> /\ Head(areas).size < offset
    THEN NewSkipStrict(Tail(areas), offset - Head(areas).size)
    ELSE <<areas, offset>>

\* BumpAllocator::new: the loop dropping the leading regions the offset covers
RECURSIVE NewSkip(_, _)
NewSkip(areas, offset) ==
    IF areas # <<>> /\ Head(areas).size <= offset
    THEN NewSkip(Tail(areas), offset - Head(areas).size)
    ELSE <<areas, offset>>

\* mutant: the frame count taken as a byte count
ReqSizeInFrames(count) == count % USIZE_MOD

\* let req_size = count.data() * A::PAGE_SIZE;
ReqSizeOverflows(count) == count * PAGE_SIZE >= USIZE_MOD
ReqSize(count) == WrapMul(count, PAGE_SIZE)

NoBlock == [some |-> FALSE, addr |-> 0]
SomeBlock(addr) == [some |-> TRUE, addr |-> addr]

\* PhysicalAddress::add
PhysAdd(base, off) == base + off

\* mutant: the loop breaks without advancing the in-region offset
RECURSIVE AllocLoopNoAdvance(_, _)
AllocLoopNoAdvance(cur, req_size) ==
    IF cur[1] = <<>>
    THEN [cur |-> cur, block |-> NoBlock, overflow |-> FALSE]
    ELSE LET area == Head(cur[1])
             off == cur[2]
         IN IF area.size - off < req_size
            THEN AllocLoopNoAdvance(<<Tail(cur[1]), 0>>, req_size)
            ELSE [cur |-> cur,
                  block |-> SomeBlock(PhysAdd(area.base, off)),
                  overflow |-> FALSE]

\* mutant: the capacity test forgets the in-region offset
RECURSIVE AllocLoopWholeArea(_, _)
AllocLoopWholeArea(cur, req_size) ==
    IF cur[1] = <<>>
    THEN [cur |-> cur, block |-> NoBlock, overflow |-> FALSE]
    ELSE LET area == Head(cur[1])
             off == cur[2]
         IN IF area.size < req_size
            THEN AllocLoopWholeArea(<<Tail(cur[1]), 0>>, req_size)
            ELSE [cur |-> <<cur[1], WrapAdd(off, req_size)>>,
                  block |-> SomeBlock(PhysAdd(area.base, off)),
                  overflow |-> FALSE]

\* mutant: an exhausted list is rewound to the original regions
RECURSIVE AllocLoopRewind(_, _)
AllocLoopRewind(cur, req_size) ==
    IF cur[1] = <<>>
    THEN [cur |-> <<orig_areas[1], 0>>, block |-> NoBlock, overflow |-> FALSE]
    ELSE LET area == Head(cur[1])
             off == cur[2]
         IN IF area.size - off < req_size
            THEN AllocLoopRewind(<<Tail(cur[1]), 0>>, req_size)
            ELSE [cur |-> <<cur[1], WrapAdd(off, req_size)>>,
                  block |-> SomeBlock(PhysAdd(area.base, off)),
                  overflow |-> FALSE]

\* mutant: a region is dropped but the in-region offset is kept
RECURSIVE AllocLoopKeepsOffset(_, _)
AllocLoopKeepsOffset(cur, req_size) ==
    IF cur[1] = <<>>
    THEN [cur |-> cur, block |-> NoBlock, overflow |-> FALSE]
    ELSE LET area == Head(cur[1])
             off == cur[2]
         IN IF area.size - off < req_size
            THEN AllocLoopKeepsOffset(<<Tail(cur[1]), off>>, req_size)
            ELSE [cur |-> <<cur[1], WrapAdd(off, req_size)>>,
                  block |-> SomeBlock(PhysAdd(area.base, off)),
                  overflow |-> FALSE]

\* the loop of allocate on cursor cur = <<areas, off>>: the cursor it leaves,
\* the block it breaks with (or none when first()? returns), and whether an
\* arithmetic step left the range of usize
RECURSIVE AllocLoop(_, _)
AllocLoop(cur, req_size) ==
    IF cur[1] = <<>>
    THEN [cur |-> cur, block |-> NoBlock, overflow |-> FALSE]
    ELSE LET area == Head(cur[1])
             off == cur[2]
         IN IF area.size < off
            THEN \* area.size - off underflows
                 IF WrapSub(area.size, off) < req_size
                 THEN [AllocLoop(<<Tail(cur[1]), 0>>, req_size) EXCEPT !.overflow = TRUE]
                 ELSE [cur |-> <<cur[1], WrapAdd(off, req_size)>>,
                       block |-> SomeBlock(PhysAdd(area.base, off)),
                       overflow |-> TRUE]
            ELSE IF area.size - off < req_size
                 THEN AllocLoop(<<Tail(cur[1]), 0>>, req_size)
                 ELSE [cur |-> <<cur[1], WrapAdd(off, req_size)>>,
                       block |-> SomeBlock(PhysAdd(area.base, off)),
                       overflow |-> off + req_size >= USIZE_MOD]

\* mutant: the physical address is written through without phys_to_virt
ZeroFillPhysical(m, block, req_size) == write_bytes(m, block, 0, req_size)

\* A::write_bytes(A::phys_to_virt(block), 0, req_size);
ZeroFill(m, block, req_size) == write_bytes(m, phys_to_virt(block), 0, req_size)

Sum(areas) == SumSizes(areas) % USIZE_MOD

\* usage(): <<used, total>> in frames, and whether a subtraction underflowed
UsageTotalBytes(orig) == WrapSub(Sum(orig[1]), orig[2])
UsageFreeBytes(cur) == WrapSub(Sum(cur[1]), cur[2])
UsageUnderflows(orig, cur) ==
    \/ Sum(orig[1]) < orig[2]
    \/ Sum(cur[1]) < cur[2]
    \/ UsageTotalBytes(orig) < UsageFreeBytes(cur)
\* mutant: the free bytes computed without the in-region offset
FrameUsageIgnoresOffset(orig, cur) ==
    [used |-> WrapSub(UsageTotalBytes(orig), Sum(cur[1])) \div PAGE_SIZE,
     total |-> UsageTotalBytes(orig) \div PAGE_SIZE]

\* mutant: the free frames reported in place of the total
FrameUsageFreeAsTotal(orig, cur) ==
    [used |-> WrapSub(UsageTotalBytes(orig), UsageFreeBytes(cur)) \div PAGE_SIZE,
     total |-> UsageFreeBytes(cur) \div PAGE_SIZE]

FrameUsage(orig, cur) ==
    [used |-> WrapSub(UsageTotalBytes(orig), UsageFreeBytes(cur)) \div PAGE_SIZE,
     total |-> UsageTotalBytes(orig) \div PAGE_SIZE]

Call(op, count, block, req, used, total) ==
    [op |-> op, count |-> count, some |-> block.some, addr |-> block.addr,
     req |-> req, used |-> used, total |-> total]

NoCall == Call("new", 0, NoBlock, 0, 0, 0)

\* frame counts: small ones, and one whose byte size does not fit in usize
Counts == (0..MaxCount) \cup {USIZE_MOD \div PAGE_SIZE + 1}

BumpInit ==
    /\ overflow_checks \in BOOLEAN
    /\ areas_in \in Regions
    /\ offset_in \in Offsets(areas_in)
    /\ orig_areas = NewSkip(areas_in, offset_in)
    /\ cur_areas = NewSkip(areas_in, offset_in)
    /\ mem = [c \in Cells |-> 255]
    /\ panicked = FALSE
    /\ last = NoCall
    /\ hist = <<>>
    /\ ncalls = 0
    /\ got_none = FALSE

\* a panic: the call never returns and the allocator is not used again
Panic(op, count) ==
    /\ panicked' = TRUE
    /\ last' = Call(op, count, NoBlock, 0, 0, 0)
    /\ UNCHANGED <<orig_areas, cur_areas, mem, hist, got_none>>

\* unsafe fn allocate(&mut self, count: FrameCount) -> Option<PhysicalAddress>
Allocate(count) ==
    /\ ~panicked
    /\ ncalls < MaxCalls
    /\ ncalls' = ncalls + 1
    /\ UNCHANGED <<overflow_checks, areas_in, offset_in, arch_vars>>
    /\ IF overflow_checks /\ ReqSizeOverflows(count)
       THEN Panic("allocate", count)
       ELSE LET req_size == ReqSize(count)
                r == AllocLoop(cur_areas, req_size)
            IN IF overflow_checks /\ r.overflow
               THEN Panic("allocate", count)
               ELSE /\ cur_areas' = r.cur
                    /\ mem' = IF r.block.some
                              THEN ZeroFill(mem, r.block.addr, req_size)
                              ELSE mem
                    /\ hist' = IF r.block.some
                               THEN Append(hist, [addr |-> r.block.addr,
                                                  size |-> req_size])
                               ELSE hist
                    /\ got_none' = (got_none \/ ~r.block.some)
                    /\ last' = Call("allocate", count, r.block, req_size, 0, 0)
                    /\ UNCHANGED <<orig_areas, panicked>>

\* mutant: free returns normally, handing the span back to the cursor
FreeRewinds(address, count) ==
    /\ ~panicked
    /\ last' = Call("free", count, NoBlock, 0, 0, 0)
    /\ cur_areas' = orig_areas
    /\ UNCHANGED <<orig_areas, mem, hist, got_none, panicked>>
    /\ UNCHANGED <<overflow_checks, areas_in, offset_in, ncalls, arch_vars>>

\* unsafe fn free(&mut self, _address: PhysicalAddress, _count: FrameCount)
Free(address, count) ==
    /\ ~panicked
    /\ Panic("free", count)
    /\ UNCHANGED <<overflow_checks, areas_in, offset_in, ncalls, arch_vars>>

\* unsafe fn usage(&self) -> FrameUsage
Usage ==
    /\ ~panicked
    /\ UNCHANGED <<overflow_checks, areas_in, offset_in, ncalls, arch_vars>>
    /\ IF overflow_checks /\ UsageUnderflows(orig_areas, cur_areas)
       THEN Panic("usage", 0)
       ELSE LET u == FrameUsage(orig_areas, cur_areas)
            IN /\ last' = Call("usage", 0, NoBlock, 0, u.used, u.total)
               /\ UNCHANGED <<orig_areas, cur_areas, mem, panicked, hist, got_none>>

---------------------------------------------------------------------------
(* AArch64Arch: the instructions each operation executes, in program order. *)
(* arch_call holds the operation in progress, its argument, the index pc of *)
(* the next instruction of its asm! block, and the length of tlb_trace when *)
(* it was entered; an instruction executed is appended to tlb_trace.        *)

MaxArchCalls == 2

Insn(name, opt, operand) == [insn |-> name, opt |-> opt, operand |-> operand]

\* mutant: the invalidation issued before the first barrier
InvalidateAsmTlbiFirst(address) ==
    << Insn("tlbi", "vaae1is", address \div PAGE_SIZE),
       Insn("dsb", "ishst", 0),
       Insn("dsb", "ish", 0),
       Insn("isb", "", 0) >>

\* the asm! block of invalidate(address)
InvalidateAsm(address) ==
    << Insn("dsb", "ishst", 0),
       Insn("tlbi", "vaae1is", address \div PAGE_SIZE),
       Insn("dsb", "ish", 0),
       Insn("isb", "", 0) >>

\* the asm! block of invalidate_all()
InvalidateAllAsm ==
    << Insn("dsb", "ishst", 0),
       Insn("tlbi", "vmalle1is", 0),
       Insn("dsb", "ish", 0),
       Insn("isb", "", 0) >>

\* the register a TableKind selects
TableRegister(table_kind) ==
    IF table_kind = "User" THEN "ttbr0_el1" ELSE "ttbr1_el1"

\* mutant: both kinds written to ttbr0_el1
SetTableAsmAlwaysUser(table_kind, address) ==
    << Insn("msr", "ttbr0_el1", address) >> \o InvalidateAllAsm

\* mutant: the invalidation issued before the register is written
SetTableAsmInvalidateFirst(table_kind, address) ==
    InvalidateAllAsm \o << Insn("msr", TableRegister(table_kind), address) >>

\* set_table(table_kind, address): the msr of the kind, then invalidate_all()
SetTableAsm(table_kind, address) ==
    << Insn("msr", TableRegister(table_kind), address) >> \o InvalidateAllAsm

\* table(table_kind): the mrs of the kind
TableAsm(table_kind) == << Insn("mrs", TableRegister(table_kind), 0) >>

cache_line == 64

\* addr, addr + cache_line, ... while addr < end_addr
RECURSIVE LineLoop(_, _)
LineLoop(addr, end_addr) ==
    IF addr < end_addr
    THEN <<addr>> \o LineLoop(addr + cache_line, end_addr)
    ELSE <<>>

\* start_addr & !(cache_line - 1)
LineOf(start_addr) == start_addr - (start_addr % cache_line)

CacheOps(name, opt, lines) == [k \in 1..Len(lines) |-> Insn(name, opt, lines[k])]

\* mutant: the loops start at start_addr itself
SyncIcacheAsmFromStart(start, len) ==
    LET lines == LineLoop(start, WrapAdd(start, len))
    IN CacheOps("dc", "cvau", lines) \o << Insn("dsb", "ish", 0) >>
       \o CacheOps("ic", "ivau", lines)
       \o << Insn("dsb", "ish", 0), Insn("isb", "", 0) >>

\* mutant: no barrier between the two loops
SyncIcacheAsmNoBarrier(start, len) ==
    LET lines == LineLoop(LineOf(start), WrapAdd(start, len))
    IN CacheOps("dc", "cvau", lines) \o CacheOps("ic", "ivau", lines)
       \o << Insn("dsb", "ish", 0), Insn("isb", "", 0) >>

\* sync_icache(start, len): dc cvau per line, dsb ish, ic ivau per line,
\* dsb ish, isb
SyncIcacheAsm(start, len) ==
    LET lines == LineLoop(LineOf(start), WrapAdd(start, len))
    IN CacheOps("dc", "cvau", lines) \o << Insn("dsb", "ish", 0) >>
       \o CacheOps("ic", "ivau", lines)
       \o << Insn("dsb", "ish", 0), Insn("isb", "", 0) >>

\* the instructions of the operation op called with arg
Program(op, arg) ==
    CASE op = "invalidate" -> InvalidateAsm(arg)
      [] op = "invalidate_all" -> InvalidateAllAsm
      [] OTHER -> <<>>

\* the instructions of a call
ProgramOf(call) ==
    CASE call.op = "set_table" -> SetTableAsm(call.kind, call.arg)
      [] call.op = "table" -> TableAsm(call.kind)
      [] call.op = "sync_icache" -> SyncIcacheAsm(call.arg, call.len)
      [] OTHER -> Program(call.op, call.arg)

VirtualAddresses == {0, PAGE_SIZE + 8, 3 * PAGE_SIZE}
TableKinds == {"User", "Kernel"}
TableAddresses == {PAGE_SIZE, 2 * PAGE_SIZE}
CodeStarts == {0, cache_line + 16}
CodeLengths == {0, 48, cache_line, 100}

ArchIdle == [op |-> "none", kind |-> "", arg |-> 0, len |-> 0, pc |-> 1, start |-> 0,
             returned |-> TRUE, calls |-> 0, ret |-> 0]

EnterCall(op, kind, arg, len) ==
    /\ arch_call.returned
    /\ arch_call.calls < MaxArchCalls
    /\ arch_call' = [op |-> op, kind |-> kind, arg |-> arg, len |-> len, pc |-> 1,
                     start |-> Len(tlb_trace), returned |-> FALSE,
                     calls |-> arch_call.calls + 1, ret |-> 0]
    /\ UNCHANGED <<tlb_trace, ttbr, constants_test, bump_vars>>

Enter(op, arg) == EnterCall(op, "", arg, 0)

\* pub fn sync_icache(start: VirtualAddress, len: usize): entry
SyncIcache(start, len) == EnterCall("sync_icache", "", start, len)

\* unsafe fn table(table_kind: TableKind) -> PhysicalAddress: entry
Table(table_kind) == EnterCall("table", table_kind, 0, 0)

\* unsafe fn set_table(table_kind: TableKind, address: PhysicalAddress): entry
SetTable(table_kind, address) == EnterCall("set_table", table_kind, address, 0)

\* unsafe fn invalidate(address: VirtualAddress): entry
Invalidate(address) == Enter("invalidate", address)

\* unsafe fn invalidate_all(): entry
InvalidateAll == Enter("invalidate_all", 0)

\* the next instruction of the operation in progress executes
ExecInsn ==
    /\ ~arch_call.returned
    /\ arch_call.pc <= Len(ProgramOf(arch_call))
    /\ LET i == ProgramOf(arch_call)[arch_call.pc]
       IN /\ tlb_trace' = Append(tlb_trace, i)
          /\ ttbr' = IF i.insn = "msr" THEN [ttbr EXCEPT ![i.opt] = i.operand] ELSE ttbr
          /\ arch_call' = [arch_call EXCEPT
                              !.pc = @ + 1,
                              !.ret = IF i.insn = "mrs" THEN ttbr[i.opt] ELSE @]
    /\ UNCHANGED <<constants_test, bump_vars>>

\* the operation in progress has executed its last instruction and returns
Return ==
    /\ ~arch_call.returned
    /\ arch_call.pc > Len(ProgramOf(arch_call))
    /\ arch_call' = [arch_call EXCEPT !.returned = TRUE]
    /\ UNCHANGED <<tlb_trace, ttbr, constants_test, bump_vars>>

(***************************************************************************)
(* The page-table constants.  A 64-bit word is the set of its one bits.    *)
(***************************************************************************)
\* mutant: three translation levels
PAGE_LEVELS_Three == 4 - 1

\* mutant: a 48-bit address field
ENTRY_ADDRESS_WIDTH_Wide == 40 + 8

PAGE_ENTRY_SHIFT == 9
PAGE_LEVELS == 4
ENTRY_ADDRESS_WIDTH == 40

\* 16 hexadecimal digits
WORD_BITS == 16 * 4
AllBits == 0..(WORD_BITS - 1)

\* the word of a small number
WordOf(n) == {b \in 0..30 : (n \div Pow2(b)) % 2 = 1}

\* the word of a hexadecimal literal, most significant digit first
HexWord(digits) ==
    {4 * (Len(digits) - k) + j : k \in 1..Len(digits), j \in 0..3}
      \cap {b \in AllBits :
              \E k \in 1..Len(digits) :
                  /\ b \div 4 = Len(digits) - k
                  /\ (digits[k] \div Pow2(b % 4)) % 2 = 1}

\* 1 << n
Bit(n) == {n} \cap AllBits

\* w << n
Shl(w, n) == {b + n : b \in w} \cap AllBits

\* !w
Not(w) == AllBits \ w

\* w - (1 << n), wrapping
SubBit(w, n) ==
    IF n \in w THEN w \ {n}
    ELSE LET above == {c \in w : c > n}
         IN IF above = {} THEN w \cup (n..(WORD_BITS - 1))
            ELSE LET c == CHOOSE x \in above : \A y \in above : x <= y
                 IN (w \ {c}) \cup (n..(c - 1))

\* a - b, wrapping
RECURSIVE SubWord(_, _)
SubWord(a, b) ==
    IF b = {} THEN a
    ELSE LET n == CHOOSE x \in b : TRUE
         IN SubWord(SubBit(a, n), b \ {n})

\* the derived constants of the Arch trait
PAGE_OFFSET_MASK == PAGE_SIZE - 1
PAGE_ADDRESS_SHIFT == PAGE_LEVELS * PAGE_ENTRY_SHIFT + PAGE_SHIFT
PAGE_ADDRESS_SIZE == Bit(PAGE_ADDRESS_SHIFT)
PAGE_ADDRESS_MASK == SubWord(PAGE_ADDRESS_SIZE, WordOf(PAGE_SIZE))
PAGE_ENTRY_SIZE == Pow2(PAGE_SHIFT - PAGE_ENTRY_SHIFT)
PAGE_ENTRIES == Pow2(PAGE_ENTRY_SHIFT)
PAGE_ENTRY_MASK == PAGE_ENTRIES - 1
PAGE_NEGATIVE_MASK == Not(SubWord(PAGE_ADDRESS_SIZE, Bit(0)))
ENTRY_ADDRESS_SIZE == Bit(ENTRY_ADDRESS_WIDTH)
ENTRY_ADDRESS_MASK == SubWord(ENTRY_ADDRESS_SIZE, Bit(0))
ENTRY_FLAGS_MASK == Not(Shl(ENTRY_ADDRESS_MASK, PAGE_SHIFT))

\* const PHYS_OFFSET: usize = 0xFFFF_8000_0000_0000, at full width
PHYS_OFFSET_WORD == HexWord(<<15,15,15,15, 8,0,0,0, 0,0,0,0, 0,0,0,0>>)

\* the values tests::constants expects
Expected_PAGE_OFFSET_MASK == HexWord(<<15,15,15>>)
Expected_ENTRY_ADDRESS_MASK == HexWord(<<0,0,0,0, 0,0,15,15, 15,15,15,15, 15,15,15,15>>)
Expected_ENTRY_FLAGS_MASK == HexWord(<<15,15,15,0, 0,0,0,0, 0,0,0,0, 0,15,15,15>>)

\* the assert_eq! pairs of tests::constants, in order
ConstantsAsserts ==
    << <<WordOf(PAGE_SIZE), WordOf(4096)>>,
       <<WordOf(PAGE_OFFSET_MASK), Expected_PAGE_OFFSET_MASK>>,
       <<WordOf(PAGE_ADDRESS_SHIFT), WordOf(48)>>,
       <<PAGE_ADDRESS_SIZE, HexWord(<<0,0,0,1, 0,0,0,0, 0,0,0,0, 0,0,0,0>>)>>,
       <<PAGE_ADDRESS_MASK, HexWord(<<0,0,0,0, 15,15,15,15, 15,15,15,15, 15,0,0,0>>)>>,
       <<WordOf(PAGE_ENTRY_SIZE), WordOf(8)>>,
       <<WordOf(PAGE_ENTRIES), WordOf(512)>>,
       <<WordOf(PAGE_ENTRY_MASK), HexWord(<<1,15,15>>)>>,
       <<PAGE_NEGATIVE_MASK, HexWord(<<15,15,15,15, 0,0,0,0, 0,0,0,0, 0,0,0,0>>)>>,
       <<ENTRY_ADDRESS_SIZE, HexWord(<<0,0,0,0, 0,1,0,0, 0,0,0,0, 0,0,0,0>>)>>,
       <<ENTRY_ADDRESS_MASK, Expected_ENTRY_ADDRESS_MASK>>,
       <<ENTRY_FLAGS_MASK, Expected_ENTRY_FLAGS_MASK>>,
       <<PHYS_OFFSET_WORD, HexWord(<<15,15,15,15, 8,0,0,0, 0,0,0,0, 0,0,0,0>>)>> >>

NotRun == [ran |-> FALSE, failed |-> 0]

\* #[test] fn constants(): the first assert_eq! that fails panics
TestConstants ==
    /\ ~constants_test.ran
    /\ LET bad == {k \in 1..Len(ConstantsAsserts) :
                      ConstantsAsserts[k][1] # ConstantsAsserts[k][2]}
       IN constants_test' =
              [ran |-> TRUE,
               failed |-> IF bad = {} THEN 0
                          ELSE CHOOSE k \in bad : \A j \in bad : k <= j]
    /\ UNCHANGED <<tlb_trace, arch_call, ttbr, bump_vars>>

Init ==
    /\ BumpInit
    /\ tlb_trace = <<>>
    /\ arch_call = ArchIdle
    /\ ttbr = [ttbr0_el1 |-> 0, ttbr1_el1 |-> 0]
    /\ constants_test = NotRun

Next ==
    \/ \E count \in Counts : Allocate(count)
    \/ \E address \in {0, PAGE_SIZE}, count \in {1} : Free(address, count)
    \/ Usage

Spec == Init /\ [][Next]_vars

\* the architecture operations alone, beside an allocator that is not used
ArchInit ==
    /\ overflow_checks = FALSE
    /\ areas_in = <<>>
    /\ offset_in = 0
    /\ orig_areas = NewSkip(<<>>, 0)
    /\ cur_areas = NewSkip(<<>>, 0)
    /\ mem = [c \in Cells |-> 255]
    /\ panicked = FALSE
    /\ last = NoCall
    /\ hist = <<>>
    /\ ncalls = 0
    /\ got_none = FALSE
    /\ tlb_trace = <<>>
    /\ arch_call = ArchIdle
    /\ ttbr = [ttbr0_el1 |-> 0, ttbr1_el1 |-> 0]
    /\ constants_test = NotRun

ArchNext ==
    \/ \E address \in VirtualAddresses : Invalidate(address)
    \/ InvalidateAll
    \/ \E start \in CodeStarts, len \in CodeLengths : SyncIcache(start, len)
    \/ \E table_kind \in TableKinds : Table(table_kind)
    \/ \E table_kind \in TableKinds, address \in TableAddresses :
           SetTable(table_kind, address)
    \/ TestConstants
    \/ ExecInsn
    \/ Return

ArchSpec == ArchInit /\ [][ArchNext]_vars

---------------------------------------------------------------------------
(* Properties of BumpAllocator.  A span is what a successful allocate call *)
(* returned: its address and the req_size bytes the call computed.         *)

Returned == 1..Len(hist)
SpanEnd(h) == h.addr + h.size
SpansDisjoint(g, h) == g.size = 0 \/ h.size = 0 \/ SpanEnd(g) <= h.addr \/ SpanEnd(h) <= g.addr

\* C1 as stated: the addresses of the successful calls are strictly
\* increasing in call order and their spans are pairwise disjoint.
C1_StrictlyIncreasing ==
    \A i, j \in Returned :
        i < j => hist[i].addr < hist[j].addr /\ SpansDisjoint(hist[i], hist[j])

\* C1 amended: every returned address is at or above the end of every span
\* returned before it, so the addresses never decrease, they increase strictly
\* past any earlier span that is not empty, and the spans are pairwise disjoint.
C1_SpansInOrder ==
    \A i, j \in Returned :
        i < j => /\ SpanEnd(hist[i]) <= hist[j].addr
                 /\ hist[i].addr <= hist[j].addr
                 /\ (hist[i].size > 0 => hist[i].addr < hist[j].addr)
                 /\ SpansDisjoint(hist[i], hist[j])

C1_Witness ==
    /\ Len(hist) = 3
    /\ hist[1].size > 0 /\ hist[2].size > 0 /\ hist[3].size > 0
    /\ Len(cur_areas[1]) < Len(orig_areas[1])

\* the bytes of region i of the list given to new that the skip offset covers
RECURSIVE SkipBefore(_)
SkipBefore(i) == IF i = 1 THEN 0 ELSE SkipBefore(i - 1) + areas_in[i - 1].size
SkipIn(i) ==
    LET left == offset_in - SkipBefore(i)
    IN IF left <= 0 THEN 0
       ELSE IF left >= areas_in[i].size THEN areas_in[i].size ELSE left

\* C2: every returned span lies inside one single region of the list given to
\* new, and holds none of the bytes the initial skip offset covers.
C2_InsideOneRegion ==
    \A k \in Returned :
        /\ \E i \in 1..Len(areas_in) :
               /\ areas_in[i].base <= hist[k].addr
               /\ SpanEnd(hist[k]) <= AreaEnd(areas_in[i])
        /\ \A i \in 1..Len(areas_in) :
               SpansDisjoint(hist[k], [addr |-> areas_in[i].base, size |-> SkipIn(i)])

C2_Witness ==
    /\ Len(areas_in) = 2
    /\ offset_in > 0
    /\ Len(orig_areas[1]) = 2
    /\ Len(hist) = 2
    /\ hist[1].size > 0 /\ hist[1].addr < AreaEnd(areas_in[1])
    /\ hist[2].size > 0 /\ hist[2].addr >= areas_in[2].base
    /\ cur_areas[2] = areas_in[2].size

\* C3: when allocate returns an address, every cell of the span it returned
\* reads zero and no cell outside the span was written.
C3_ZeroFilled ==
    [][(ncalls' = ncalls + 1 /\ last'.op = "allocate" /\ last'.some)
         => \A c \in Cells :
                IF CellInSpan(c, last'.addr, last'.req)
                THEN mem'[c] = 0
                ELSE mem'[c] = mem[c]]_vars

C3_Witness ==
    /\ last.op = "allocate" /\ last.some /\ last.req = 2 * PAGE_SIZE
    /\ \A c \in Cells : CellInSpan(c, last.addr, last.req) => mem[c] = 0
    /\ \E c \in Cells : mem[c] # 0
    /\ last.addr % PAGE_SIZE # 0

RECURSIVE SumSpans(_)
SumSpans(spans) == IF spans = <<>> THEN 0 ELSE Head(spans).size + SumSpans(Tail(spans))

\* C4 as stated: after allocate calls, the bytes returned by the successful
\* ones sum to at most T - S, T the sum of the region sizes and S the skip
\* offset given to new.
C4_AtMostTMinusS == ncalls > 0 => SumSpans(hist) <= SumSizes(areas_in) - offset_in

\* C4 amended: the sum is at most T - S when S <= T, and zero when S > T.
C4_AtMostCapacity ==
    IF offset_in <= SumSizes(areas_in)
    THEN SumSpans(hist) <= SumSizes(areas_in) - offset_in
    ELSE SumSpans(hist) = 0

C4_Witness ==
    /\ offset_in > 0
    /\ Len(hist) >= 2
    /\ SumSpans(hist) = SumSizes(areas_in) - offset_in
    /\ SumSpans(hist) >= 3 * PAGE_SIZE

\* C5: once an allocate call has returned none, no later allocate call
\* returns an address.
C5_NoneForever ==
    [][(got_none /\ ncalls' = ncalls + 1) => ~last'.some]_vars

C5_Witness ==
    /\ got_none /\ ncalls = 3 /\ Len(hist) = 1
    /\ last.op = "allocate" /\ last.count = 0 /\ ~last.some /\ ~panicked

\* the first call on an allocator built with skip offset 0 was allocate(k),
\* with k * PAGE_SIZE in the range of usize, and it returned an address
FirstAllocateDone ==
    /\ offset_in = 0
    /\ ncalls = 1 /\ last.op = "allocate" /\ last.some
    /\ ~ReqSizeOverflows(last.count)

\* the total size of the regions of the list given to new that are no longer
\* in the current list
DroppedBytes == SumSizes(SubSeq(areas_in, 1, Len(areas_in) - Len(cur_areas[1])))

\* C6 as stated: after a successful first allocate(k) with skip offset 0,
\* usage() reports used = k and total = (sum of region sizes) / PAGE_SIZE.
C6_UsedIsK ==
    FirstAllocateDone =>
        /\ FrameUsage(orig_areas, cur_areas).used = last.count
        /\ FrameUsage(orig_areas, cur_areas).total = SumSizes(areas_in) \div PAGE_SIZE

\* C6 amended: usage() then reports total = (sum of region sizes) / PAGE_SIZE
\* and used = (D + k * PAGE_SIZE) / PAGE_SIZE, D the total size of the regions
\* the call dropped as too small; used = k when it dropped none.
C6_UsedCountsDropped ==
    (offset_in = 0 /\ ncalls = 1 /\ last.op = "allocate" /\ last.some) =>
        /\ FrameUsage(orig_areas, cur_areas).used
               = (DroppedBytes + last.req) \div PAGE_SIZE
        /\ FrameUsage(orig_areas, cur_areas).total = SumSizes(areas_in) \div PAGE_SIZE
        /\ (DroppedBytes = 0 /\ ~ReqSizeOverflows(last.count))
               => FrameUsage(orig_areas, cur_areas).used = last.count

C6_Witness ==
    /\ FirstAllocateDone
    /\ last.count = 2
    /\ DroppedBytes = 2 * Grain
    /\ FrameUsage(orig_areas, cur_areas).used = 3

\* C7: whenever usage() returns, used <= total; and total is
\* (region sizes - skip offset) / PAGE_SIZE when the skip offset lies within the regions.
C7_UsedAtMostTotal ==
    (last.op = "usage" /\ ~panicked) =>
        /\ last.used <= last.total
        /\ offset_in <= SumSizes(areas_in)
               => last.total = (SumSizes(areas_in) - offset_in) \div PAGE_SIZE

C7_Witness ==
    /\ last.op = "usage" /\ ~panicked
    /\ last.used = 2 /\ last.total = 3
    /\ offset_in > 0

Aligned(addr) == addr % PAGE_SIZE = 0

\* C8 as stated: every returned address is a multiple of PAGE_SIZE.
C8_AlwaysAligned == \A k \in Returned : Aligned(hist[k].addr)

\* C8 amended: every returned address is a multiple of PAGE_SIZE when the
\* bases of the regions left by new and the in-region offset left by new are.
C8_AlignedInputs ==
    ((\A i \in 1..Len(orig_areas[1]) : Aligned(orig_areas[1][i].base))
        /\ Aligned(orig_areas[2]))
    => \A k \in Returned : Aligned(hist[k].addr)

C8_Witness ==
    /\ Len(areas_in) = 2 /\ Len(orig_areas[1]) = 1
    /\ ~Aligned(offset_in) /\ ~Aligned(areas_in[1].size)
    /\ Aligned(orig_areas[1][1].base)
    /\ Aligned(orig_areas[2]) /\ orig_areas[2] > 0
    /\ Len(hist) = 1 /\ hist[1].size > 0
    /\ hist[1].addr = orig_areas[1][1].base + orig_areas[2]

\* C9: a free call never returns normally and leaves both cursors as they
\* were; a cursor changes only in an allocate call.
C9_FreeFails ==
    [][/\ (last'.op = "free" /\ ~panicked)
            => (panicked' /\ orig_areas' = orig_areas /\ cur_areas' = cur_areas)
       /\ (orig_areas' # orig_areas \/ cur_areas' # cur_areas)
            => (last'.op = "allocate" /\ ncalls' = ncalls + 1)]_vars

C9_Witness ==
    /\ last.op = "free" /\ panicked
    /\ Len(hist) = 2 /\ cur_areas # orig_areas

---------------------------------------------------------------------------
(* Properties of AArch64Arch. *)

\* what an instruction is to an observer of barriers and invalidations
EventKind(i) ==
    CASE i.insn = "dsb" -> "data-barrier"
      [] i.insn = "isb" -> "instruction-barrier"
      [] i.insn = "tlbi" /\ i.opt = "vaae1is" -> "invalidate-address"
      [] i.insn = "tlbi" /\ i.opt = "vmalle1is" -> "invalidate-all"
      [] i.insn = "msr" -> "write-root"
      [] i.insn = "dc" /\ i.opt = "cvau" -> "clean-dcache"
      [] i.insn = "ic" /\ i.opt = "ivau" -> "invalidate-icache"
      [] i.insn = "mrs" -> "read-root"
      [] OTHER -> "other"

\* the instructions the current call has executed so far
IssuedByCall == SubSeq(tlb_trace, arch_call.start + 1, Len(tlb_trace))
KindsIssued == [k \in 1..Len(IssuedByCall) |-> EventKind(IssuedByCall[k])]

InvalidationOrder(op) ==
    << "data-barrier",
       IF op = "invalidate" THEN "invalidate-address" ELSE "invalidate-all",
       "data-barrier",
       "instruction-barrier" >>

\* C10: a call of invalidate or invalidate_all issues data barrier, TLB
\* invalidation (by the page of the address, or of everything), data barrier,
\* instruction barrier, in this order and nothing else, and has issued all
\* four when it returns.
C10_InvalidationSequence ==
    arch_call.op \in {"invalidate", "invalidate_all"} =>
        /\ Len(KindsIssued) <= 4
        /\ KindsIssued = SubSeq(InvalidationOrder(arch_call.op), 1, Len(KindsIssued))
        /\ arch_call.returned => Len(KindsIssued) = 4
        /\ (arch_call.op = "invalidate" /\ Len(IssuedByCall) >= 2)
               => IssuedByCall[2].operand = arch_call.arg \div PAGE_SIZE

C10_Witness ==
    /\ arch_call.calls = 2 /\ arch_call.returned
    /\ arch_call.op = "invalidate_all"
    /\ Len(tlb_trace) = 8
    /\ tlb_trace[2].opt = "vaae1is" /\ tlb_trace[2].operand = 3

\* the last value written to register reg by the instructions in trace,
\* or none when there was no write
RECURSIVE LastWrite(_, _)
LastWrite(trace, reg) ==
    IF trace = <<>> THEN [some |-> FALSE, value |-> 0]
    ELSE LET i == trace[Len(trace)]
         IN IF i.insn = "msr" /\ i.opt = reg
            THEN [some |-> TRUE, value |-> i.operand]
            ELSE LastWrite(SubSeq(trace, 1, Len(trace) - 1), reg)

RegisterOf(kind) == IF kind = "User" THEN "ttbr0_el1" ELSE "ttbr1_el1"
OtherRegisterOf(kind) == IF kind = "User" THEN "ttbr1_el1" ELSE "ttbr0_el1"

SetTableOrder ==
    << "write-root", "data-barrier", "invalidate-all", "data-barrier",
       "instruction-barrier" >>

\* C11: set_table(kind, address) writes the root register of the kind with
\* the address, leaves the other kind's register as it was, then issues the
\* whole invalidate_all sequence, all of it before it returns; a table(kind)
\* that returns afterwards gives the address last set for the kind.
C11_SetTableThenInvalidate ==
    /\ arch_call.op = "set_table" =>
        /\ Len(KindsIssued) <= 5
        /\ KindsIssued = SubSeq(SetTableOrder, 1, Len(KindsIssued))
        /\ arch_call.returned => Len(KindsIssued) = 5
        /\ Len(IssuedByCall) >= 1 =>
              /\ IssuedByCall[1].opt = RegisterOf(arch_call.kind)
              /\ IssuedByCall[1].operand = arch_call.arg
              /\ ttbr[RegisterOf(arch_call.kind)] = arch_call.arg
        /\ LET before == LastWrite(SubSeq(tlb_trace, 1, arch_call.start),
                                   OtherRegisterOf(arch_call.kind))
           IN ttbr[OtherRegisterOf(arch_call.kind)]
                  = IF before.some THEN before.value ELSE 0
    /\ (arch_call.op = "table" /\ arch_call.returned
          /\ LastWrite(tlb_trace, RegisterOf(arch_call.kind)).some)
        => arch_call.ret = LastWrite(tlb_trace, RegisterOf(arch_call.kind)).value

C11_Witness ==
    /\ arch_call.op = "table" /\ arch_call.kind = "Kernel" /\ arch_call.returned
    /\ arch_call.ret = 2 * PAGE_SIZE
    /\ Len(tlb_trace) = 6
    /\ tlb_trace[1].insn = "msr" /\ tlb_trace[5].insn = "isb"
    /\ ttbr["ttbr0_el1"] = 0

\* positions and operands of the instructions of one kind issued by the call
PositionsOf(kind) == {k \in 1..Len(KindsIssued) : KindsIssued[k] = kind}
LinesOf(kind) == {IssuedByCall[k].operand : k \in PositionsOf(kind)}

\* the cache-line addresses up to the end of the range
AllLines(start, len) == {l \in 0..(start + len) : l % cache_line = 0}

\* the lines that have a byte in [start, start + len)
OverlappingLines(start, len) ==
    {l \in AllLines(start, len) :
        \E b \in l..(l + cache_line - 1) : start <= b /\ b < start + len}

\* the lines from the one holding start up to start + len
SteppedLines(start, len) ==
    {l \in AllLines(start, len) : l + cache_line > start /\ l < start + len}

\* the call cleans lines, barrier, invalidates lines, barrier pair
SyncIcacheShape(lines) ==
    LET cleans == PositionsOf("clean-dcache")
        invs == PositionsOf("invalidate-icache")
        dsbs == PositionsOf("data-barrier")
        isbs == PositionsOf("instruction-barrier")
        first == CHOOSE k \in dsbs : \A j \in dsbs : k <= j
        second == CHOOSE k \in dsbs : \A j \in dsbs : j <= k
    IN /\ cleans \cup invs \cup dsbs \cup isbs = 1..Len(KindsIssued)
       /\ Cardinality(dsbs) <= 2 /\ Cardinality(isbs) <= 1
       /\ \A k \in dsbs : IssuedByCall[k].opt = "ish"
       /\ \A c \in cleans, d \in dsbs : c < d
       /\ \A i \in invs : dsbs # {} /\ first < i
       /\ Cardinality(dsbs) = 2 => \A i \in invs : i < second
       /\ \A k \in isbs : Cardinality(dsbs) = 2 /\ k = second + 1
                           /\ k = Len(KindsIssued)
       /\ LinesOf("clean-dcache") \subseteq lines
       /\ LinesOf("invalidate-icache") \subseteq lines
       /\ dsbs # {} => LinesOf("clean-dcache") = lines
       /\ Cardinality(dsbs) = 2 => LinesOf("invalidate-icache") = lines
       /\ arch_call.returned => isbs # {}

\* C12 as stated: sync_icache(start, length) cleans exactly the 64-byte
\* lines overlapping [start, start+length), then a data barrier, then
\* invalidates the same lines, then a data and an instruction barrier; with
\* length 0 no line is touched.
C12_ExactlyOverlappingLines ==
    arch_call.op = "sync_icache" =>
        SyncIcacheShape(OverlappingLines(arch_call.arg, arch_call.len))

\* C12 (amended): the lines touched are those stepped through from start
\* aligned down while below start+length: the overlapping lines when
\* length > 0, and with length 0 the line holding start unless start is
\* line-aligned; the order of cleans, barrier, invalidates and the final
\* barrier pair is as stated.
C12_SteppedLines ==
    arch_call.op = "sync_icache" =>
        /\ SyncIcacheShape(SteppedLines(arch_call.arg, arch_call.len))
        /\ arch_call.len > 0 =>
              SteppedLines(arch_call.arg, arch_call.len)
                  = OverlappingLines(arch_call.arg, arch_call.len)
        /\ arch_call.len = 0 =>
              SteppedLines(arch_call.arg, arch_call.len)
                  = IF arch_call.arg % cache_line = 0 THEN {}
                    ELSE {LineOf(arch_call.arg)}

C12_Witness ==
    /\ arch_call.op = "sync_icache" /\ arch_call.returned
    /\ arch_call.arg = cache_line + 16 /\ arch_call.len = 0
    /\ LinesOf("clean-dcache") = {cache_line}
    /\ LinesOf("invalidate-icache") = {cache_line}

\* C13 as stated: the page-offset mask, the entry-address mask and the
\* entry-flags mask are pairwise disjoint and their union is every bit of a
\* 64-bit entry.
C13_ThreeMasksPartition ==
    constants_test.ran =>
        /\ Expected_PAGE_OFFSET_MASK \cap Expected_ENTRY_ADDRESS_MASK = {}
        /\ Expected_PAGE_OFFSET_MASK \cap Expected_ENTRY_FLAGS_MASK = {}
        /\ Expected_ENTRY_ADDRESS_MASK \cap Expected_ENTRY_FLAGS_MASK = {}
        /\ Expected_PAGE_OFFSET_MASK \cup Expected_ENTRY_ADDRESS_MASK
               \cup Expected_ENTRY_FLAGS_MASK = AllBits

\* C13 (amended): with the values tests::constants asserts, the entry-flags
\* mask and the entry-address mask shifted left by PAGE_SHIFT are disjoint
\* and their union is every bit of a 64-bit entry; the page-offset mask is
\* the low PAGE_SHIFT bits and lies inside the entry-flags mask, and the
\* unshifted entry-address mask is the low ENTRY_ADDRESS_WIDTH bits, which
\* contain the page-offset mask.
C13_FlagsAndShiftedAddressPartition ==
    constants_test.ran =>
        /\ Expected_ENTRY_FLAGS_MASK
               \cap Shl(Expected_ENTRY_ADDRESS_MASK, PAGE_SHIFT) = {}
        /\ Expected_ENTRY_FLAGS_MASK
               \cup Shl(Expected_ENTRY_ADDRESS_MASK, PAGE_SHIFT) = AllBits
        /\ Expected_PAGE_OFFSET_MASK = 0..(PAGE_SHIFT - 1)
        /\ Expected_PAGE_OFFSET_MASK \subseteq Expected_ENTRY_FLAGS_MASK
        /\ Expected_ENTRY_ADDRESS_MASK = 0..(ENTRY_ADDRESS_WIDTH - 1)
        /\ Expected_PAGE_OFFSET_MASK \subseteq Expected_ENTRY_ADDRESS_MASK

C13_Witness ==
    /\ constants_test.ran
    /\ Expected_ENTRY_FLAGS_MASK = (0..11) \cup (52..63)
    /\ Expected_PAGE_OFFSET_MASK \cap Expected_ENTRY_FLAGS_MASK = 0..11
    /\ Shl(Expected_ENTRY_ADDRESS_MASK, PAGE_SHIFT) = 12..51

\* C14: the derived constants follow from PAGE_SHIFT = 12, PAGE_ENTRY_SHIFT
\* = 9, PAGE_LEVELS = 4 and ENTRY_ADDRESS_WIDTH = 40: PAGE_SIZE = 4096,
\* PAGE_OFFSET_MASK = PAGE_SIZE - 1, PAGE_ENTRIES = 512, PAGE_ENTRY_MASK =
\* 511, PAGE_ADDRESS_SHIFT = 48, PAGE_ADDRESS_SIZE = 2^48, PAGE_ADDRESS_MASK
\* = 2^48 - 2^12, PAGE_NEGATIVE_MASK = the complement of 2^48 - 1,
\* ENTRY_ADDRESS_SIZE = 2^40, ENTRY_ADDRESS_MASK = 2^40 - 1, ENTRY_FLAGS_MASK
\* = the complement of ENTRY_ADDRESS_MASK << PAGE_SHIFT =
\* 0xFFF0_0000_0000_0FFF; these are the values tests::constants asserts.
C14_DerivedConstants ==
    constants_test.ran =>
        /\ constants_test.failed = 0
        /\ PAGE_SHIFT = 12 /\ PAGE_ENTRY_SHIFT = 9
        /\ PAGE_LEVELS = 4 /\ ENTRY_ADDRESS_WIDTH = 40
        /\ PAGE_SIZE = 4096
        /\ PAGE_OFFSET_MASK = PAGE_SIZE - 1
        /\ PAGE_ENTRIES = 512
        /\ PAGE_ENTRY_MASK = 511
        /\ PAGE_ADDRESS_SHIFT = 48
        /\ PAGE_ADDRESS_SIZE = {48}
        /\ PAGE_ADDRESS_MASK = 12..47
        /\ PAGE_NEGATIVE_MASK = AllBits \ (0..47)
        /\ ENTRY_ADDRESS_SIZE = {40}
        /\ ENTRY_ADDRESS_MASK = 0..39
        /\ ENTRY_FLAGS_MASK = AllBits \ (12..51)
        /\ ENTRY_FLAGS_MASK = Expected_ENTRY_FLAGS_MASK

C14_Witness ==
    /\ constants_test.ran /\ constants_test.failed = 0
    /\ PAGE_ADDRESS_MASK = 12..47
    /\ Cardinality(ENTRY_FLAGS_MASK) = 24

\* the bytes left in the i-th region of cursor cur: the first region counted
\* from the in-region offset, the later ones whole
Capacity(cur, i) == IF i = 1 THEN cur[1][1].size - cur[2] ELSE cur[1][i].size
Fitting(cur, req) == {i \in 1..Len(cur[1]) : Capacity(cur, i) >= req}

\* the regions of the list given to new that are not in the list `areas`
Abandoned(areas) == {areas_in[i] : i \in 1..(Len(areas_in) - Len(areas))}

\* C15: allocate(count), with req the request size in bytes, returns base +
\* offset of the first region from the cursor whose remaining capacity is at
\* least req (the current region from its in-region offset, later ones from
\* 0), advances that region's offset by req and removes every region scanned
\* before it; when no region fits it returns none and leaves the region list
\* empty; the address is in no region abandoned by then.
C15_FirstFit ==
    [][(ncalls' = ncalls + 1 /\ ~panicked') =>
         LET req == last'.req
             fits == Fitting(cur_areas, req)
         IN IF fits = {}
            THEN ~last'.some /\ cur_areas'[1] = <<>>
            ELSE LET i == CHOOSE x \in fits : \A y \in fits : x <= y
                     start == IF i = 1 THEN cur_areas[2] ELSE 0
                 IN /\ last'.some
                    /\ last'.addr = cur_areas[1][i].base + start
                    /\ cur_areas' = <<SubSeq(cur_areas[1], i, Len(cur_areas[1])),
                                      start + req>>
                    /\ \A d \in Abandoned(cur_areas'[1]) :
                          ~(d.base <= last'.addr /\ last'.addr < d.base + d.size)
      ]_vars

C15_Witness ==
    /\ ncalls = 2 /\ Len(hist) = 2 /\ last.op = "allocate" /\ last.some
    /\ last.req = PAGE_SIZE
    /\ hist[1].addr = areas_in[1].base
    /\ Len(cur_areas[1]) = 1 /\ Len(areas_in) = 2
    /\ last.addr = areas_in[2].base /\ cur_areas[2] = PAGE_SIZE
    /\ areas_in[1].size > hist[1].size

\* the regions new dropped from the front of the list it was given
DroppedByNew == SubSeq(areas_in, 1, Len(areas_in) - Len(orig_areas[1]))

\* C16: new(areas, offset) drops leading regions, subtracting each dropped
\* size from the offset: what it leaves is a suffix of the list that is empty
\* or whose first region is larger than the remaining offset, and the dropped
\* sizes plus the remaining offset are the offset passed in.  With regions
\* [0x1000, size 0x3000] and [0x10000, size 0x1000] and skip offset 0x2000
\* the cursor is the first region at offset 0x2000, and a first allocate of
\* one frame returns 0x3000.
C16_NewSkipsOffset ==
    /\ Len(orig_areas[1]) <= Len(areas_in)
    /\ orig_areas[1] = SubSeq(areas_in, Len(DroppedByNew) + 1, Len(areas_in))
    /\ orig_areas[1] = <<>> \/ orig_areas[2] < Head(orig_areas[1]).size
    /\ orig_areas[2] >= 0
    /\ SumSizes(DroppedByNew) + orig_areas[2] = offset_in
    /\ ncalls = 0 => cur_areas = orig_areas
    /\ (areas_in = ScenarioAreas /\ offset_in = 2 * PAGE_SIZE) =>
          /\ orig_areas = <<ScenarioAreas, 2 * PAGE_SIZE>>
          /\ (ncalls = 1 /\ last.op = "allocate" /\ last.count = 1) =>
                last.some /\ last.addr = 3 * PAGE_SIZE

C16_Witness ==
    /\ areas_in = ScenarioAreas /\ offset_in = 2 * PAGE_SIZE
    /\ ncalls = 1 /\ last.op = "allocate" /\ last.count = 1
    /\ last.addr = 3 * PAGE_SIZE /\ cur_areas = <<ScenarioAreas, 3 * PAGE_SIZE>>

\* the current list is a suffix of the original list, and the in-region
\* offset is within the first current region
CursorInvariant(orig, cur) ==
    /\ Len(cur[1]) <= Len(orig[1])
    /\ cur[1] = SubSeq(orig[1], Len(orig[1]) - Len(cur[1]) + 1, Len(orig[1]))
    /\ cur[1] # <<>> => (0 <= cur[2] /\ cur[2] <= Head(cur[1]).size)

\* C17: in every reachable state the current region list is a suffix of the
\* original (post-construction) list and, when it is not empty, the current
\* in-region offset is at most the size of its first region; the original
\* list and original offset never change after construction.
C17_CursorWithinOriginal ==
    /\ CursorInvariant(orig_areas, cur_areas)
    /\ [][/\ CursorInvariant(orig_areas', cur_areas')
          /\ orig_areas' = orig_areas]_vars

C17_Witness ==
    /\ ncalls = 2 /\ Len(hist) = 2 /\ ~panicked
    /\ Len(orig_areas[1]) = 2 /\ Len(cur_areas[1]) = 1
    /\ cur_areas[2] = Head(cur_areas[1]).size
    /\ orig_areas[2] > 0

\* the cells that have a byte in [from, to)
CellsOfRange(from, to) ==
    IF from < to THEN (from \div Grain)..((to - 1) \div Grain) ELSE {}

\* the cells of the spans returned so far
ReturnedCells ==
    UNION {CellsOfRange(hist[k].addr, hist[k].addr + hist[k].size) : k \in Returned}

\* the index in the list given to new of the first region of cursor cur
RegionIndex(cur) == Len(areas_in) - Len(cur[1]) + 1

\* the cells of region i of the list given to new from the original cursor
\* on: the whole region unless the original cursor is inside it
CellsFromOrig(i) ==
    CellsOfRange(areas_in[i].base
                    + (IF i = RegionIndex(orig_areas) THEN orig_areas[2] ELSE 0),
                 AreaEnd(areas_in[i]))

\* the cells from the original cursor up to the current cursor
BetweenCursors ==
    UNION {CellsFromOrig(i) \cap
             (IF i = RegionIndex(cur_areas)
              THEN CellsOfRange(areas_in[i].base, areas_in[i].base + cur_areas[2])
              ELSE Cells) :
           i \in {x \in 1..Len(areas_in) :
                     RegionIndex(orig_areas) <= x /\ x <= RegionIndex(cur_areas)}}

\* the cells of the regions allocate abandoned that lie above every cell of
\* their region in the set ret
AbandonedTails(ret) ==
    UNION {{c \in CellsFromOrig(i) : \A r \in ret \cap CellsFromOrig(i) : r < c} :
           i \in {x \in 1..Len(areas_in) :
                     RegionIndex(orig_areas) <= x /\ x < RegionIndex(cur_areas)}}

\* C18 as stated: the bytes returned so far by successful allocate calls are
\* exactly the bytes between the original cursor and the current cursor.
C18_ReturnedIsBetween ==
    ncalls > 0 => ReturnedCells = BetweenCursors

\* C18 (amended): every byte returned so far lies between the original
\* cursor and the current cursor, and the bytes between the cursors that
\* were not returned are exactly the unused tails of the regions that
\* allocate abandoned.
C18_ReturnedAndTails ==
    LET ret == ReturnedCells
        between == BetweenCursors
    IN /\ ret \subseteq between
       /\ between \ ret = AbandonedTails(ret)

C18_Witness ==
    /\ ncalls = 2 /\ Len(hist) = 2 /\ ~panicked
    /\ RegionIndex(orig_areas) = 1 /\ RegionIndex(cur_areas) = 2
    /\ Cardinality(ReturnedCells) = 4
    /\ Cardinality(AbandonedTails(ReturnedCells)) = 2
    /\ Cardinality(BetweenCursors) = 6

\* C19: across allocate and usage calls the total usage() reports is the same
\* in every state, the used count it reports never decreases, and a usage()
\* call changes nothing in the allocator's state.
C19_UsageMonotone ==
    [][LET before == FrameUsage(orig_areas, cur_areas)
           after == FrameUsage(orig_areas', cur_areas')
       IN /\ after.total = before.total
          /\ after.used >= before.used
          /\ last'.op = "usage" =>
               /\ UNCHANGED <<orig_areas, cur_areas, mem, hist, got_none>>
               /\ ~panicked' =>
                     /\ last'.total = before.total
                     /\ last'.used = before.used
      ]_vars

C19_Witness ==
    /\ last.op = "usage" /\ ~panicked
    /\ ncalls = 2 /\ Len(hist) = 2
    /\ hist[1].size = PAGE_SIZE /\ hist[2].size = PAGE_SIZE
    /\ last.used = 2 /\ last.total = 3
    /\ Len(orig_areas[1]) = 2 /\ Len(cur_areas[1]) = 1

\* C20: for every region list and every skip offset given to new, also one
\* larger than the sum of the region sizes, and in every reachable state,
\* no unsigned subtraction goes below zero: area.size - off in allocate, and
\* (sum of original sizes - original offset), (sum of remaining sizes -
\* current offset) and (total - free) in usage.
C20_NoSubtractionUnderflows ==
    /\ cur_areas[1] # <<>> => cur_areas[2] <= Head(cur_areas[1]).size
    /\ last.op = "usage" => ~UsageUnderflows(orig_areas, cur_areas)

=============================================================================
